---- MODULE Spec2Model ----
(***************************************************************************)
(* A model of timeseries/TimeSeries.py: the TimeSeries container, its      *)
(* constructor, indexing, mutation, elementwise arithmetic, equality and   *)
(* interpolation.                                                          *)
(*                                                                         *)
(* Python lists are mutable objects reached by reference, so the model     *)
(* keeps a heap of lists.  A client holds three names, "a", "b" (operands) *)
(* and "r" (the series an operation returned), each bound once; the lists  *)
(* an instance allocates are addressed by <<name, attribute>>.             *)
(* Times are integers; values are exact rationals <<numerator,             *)
(* denominator>> in lowest terms, so that Python's true division in        *)
(* interpolate is computed and not approximated.                           *)
(***************************************************************************)
EXTENDS Integers, Sequences, FiniteSets, TLC

VARIABLES
    heap,   \* the Python lists, by address
    objs,   \* what each of the client's names holds
    last,   \* the last call: its arguments and its outcome
    pre,    \* heap and objs as they were before the last call
    made    \* for each name, how its instance was made and what it then held

vars == <<heap, objs, last, pre, made>>

(* ------------------------------ bounds -------------------------------- *)

\* longest value / time sequence handed to the constructor
MaxLen == 2
\* longest series interpolated; query times run from 0 to one above it
MaxInterpLen == 3
\* longest newTimes sequence handed to interpolate
MaxQueries == 2

\* longest sequence handed to the constructor where storage sharing is checked
MaxAliasLen == 2

\* the integer i as a value
IntNum(i) == <<i, 1>>

\* the integers that values, set values and times are drawn from
Vals == {1, 2}
SetVals == {IntNum(0), IntNum(2)}
AliasVals == {1}
TimeVals == {1, 2}
InterpTimeVals == {1, 2, 4}

(* ------------------------------ numbers ------------------------------- *)

Abs(n) == IF n < 0 THEN -n ELSE n

RECURSIVE GCD(_, _)
GCD(m, n) == IF n = 0 THEN m ELSE GCD(n, m % n)

\* the rational n/d (d # 0) in lowest terms with a positive denominator
Num(n, d) ==
    LET s == IF d < 0 THEN -1 ELSE 1
        g == GCD(Abs(n), Abs(d))
    IN  <<(s * n) \div g, (s * d) \div g>>

NumAdd(x, y) == Num(x[1] * y[2] + y[1] * x[2], x[2] * y[2])
NumSub(x, y) == Num(x[1] * y[2] - y[1] * x[2], x[2] * y[2])
NumMul(x, y) == Num(x[1] * y[1], x[2] * y[2])
NumDiv(x, y) == Num(x[1] * y[2], x[2] * y[1])
NumNeg(x) == <<-x[1], x[2]>>

(* --------------------------- Python values ---------------------------- *)

Names == {"a", "b", "r"}
Operands == {"a", "b"}
Attrs == {"_time", "_value", "_timeseries"}
Addrs == Names \X Attrs
NullAddr == <<"none", "none">>

RECURSIVE RangeElems(_, _, _)
RangeElems(start, stop, step) ==
    IF (step > 0 /\ start < stop) \/ (step < 0 /\ start > stop)
    THEN <<start>> \o RangeElems(start + step, stop, step)
    ELSE <<>>

\* A Python value: kind, the heap address when it is a list on the heap, its
\* elements otherwise (an int holds its value, a slice its three bounds), and
\* for a range its <<start, stop, step>>.
PyNone == [kind |-> "none", addr |-> NullAddr, elems |-> <<>>, rng |-> <<>>]
PyInt(i) == [kind |-> "int", addr |-> NullAddr, elems |-> <<i>>, rng |-> <<>>]
\* a list the caller owns (a temporary, or a literal)
PyList(elems) ==
    [kind |-> "list", addr |-> NullAddr, elems |-> elems, rng |-> <<>>]
\* a reference to a list on the heap
PyRef(addr) == [kind |-> "list", addr |-> addr, elems |-> <<>>, rng |-> <<>>]
range(start, stop, step) ==
    [kind |-> "range", addr |-> NullAddr,
     elems |-> RangeElems(start, stop, step), rng |-> <<start, stop, step>>]
\* slice(start, stop, step), each bound None or an int
slice(start, stop, step) ==
    [kind |-> "slice", addr |-> NullAddr, elems |-> <<start, stop, step>>,
     rng |-> <<>>]

Elems(h, pv) == IF pv.addr # NullAddr THEN h[pv.addr] ELSE pv.elems
len(h, pv) == Len(Elems(h, pv))
isSequence(pv) == pv.kind \in {"list", "range"}
\* bool as "is not None": an empty or zero time argument counts as given
bool_isNotNone(h, pv) == pv.kind # "none"

bool(h, pv) ==
    CASE pv.kind = "none" -> FALSE
      [] pv.kind = "int" -> pv.elems[1] # 0
      [] OTHER -> len(h, pv) > 0

\* 0-based indexing, as in the source
At(seq, i) == seq[i + 1]

zip(s, t) ==
    [i \in 1..(IF Len(s) < Len(t) THEN Len(s) ELSE Len(t)) |-> <<s[i], t[i]>>]

(* ----------------------------- instances ------------------------------ *)

NoObj ==
    [class |-> "NoneType", _time |-> PyNone, _value |-> NullAddr,
     _timeseries |-> NullAddr]

\* what a call gives: the exception raised ("none" when it returns), the
\* heap after it, the instance it constructed and the value it returned
Raise(h, e) == [exc |-> e, heap |-> h, obj |-> NoObj, ret |-> <<>>]

\* list(x) left out: the attribute keeps the caller's list
list_noCopy(h, addr, pv) ==
    IF pv.kind = "list" /\ pv.addr # NullAddr
    THEN [ref |-> pv, heap |-> h]
    ELSE [ref |-> PyRef(addr), heap |-> [h EXCEPT ![addr] = Elems(h, pv)]]

\* list(x) evaluated for the attribute stored at addr: a new list object
\* holding a copy of x's elements
list(h, addr, pv) ==
    [ref |-> PyRef(addr), heap |-> [h EXCEPT ![addr] = Elems(h, pv)]]

\* TimeSeries(input_value, input_time), the new instance bound to name s
__init__(h, s, input_value, input_time) ==
    IF ~isSequence(input_value) THEN Raise(h, "TypeError")
    ELSE IF bool(h, input_time) /\ ~isSequence(input_time)
    THEN Raise(h, "TypeError")
    ELSE IF bool(h, input_time) /\ len(h, input_time) # len(h, input_value)
    THEN Raise(h, "ValueError")
    ELSE
        LET n == len(h, input_value)
            t == IF bool(h, input_time)
                 THEN list(h, <<s, "_time">>, input_time)
                 ELSE [ref |-> range(1, n + 1, 1), heap |-> h]
            v == list(t.heap, <<s, "_value">>, input_value)
            h3 == [v.heap EXCEPT ![<<s, "_timeseries">>] =
                       zip(Elems(v.heap, t.ref), Elems(v.heap, v.ref))]
        IN  [exc |-> "none", heap |-> h3, ret |-> <<>>,
             obj |-> [class |-> "TimeSeries", _time |-> t.ref, _value |-> v.ref.addr,
                      _timeseries |-> <<s, "_timeseries">>]]

__len__(h, self) == Len(h[self._value])

\* the instance's times, values and pairs as plain sequences
Times(h, self) == Elems(h, self._time)
Values(h, self) == h[self._value]
Pairs(h, self) == h[self._timeseries]

(* ------------------------- indexing and slices ------------------------ *)

Min(x, y) == IF x < y THEN x ELSE y
Max(x, y) == IF x > y THEN x ELSE y

\* slice.indices(n): the start, stop and step a slice selects in a sequence
\* of length n (step is not 0)
indices(sl, n) ==
    LET step == IF sl.elems[3].kind = "none" THEN 1 ELSE sl.elems[3].elems[1]
        lower == IF step > 0 THEN 0 ELSE -1
        upper == IF step > 0 THEN n ELSE n - 1
        clip(b) == IF b < 0 THEN Max(b + n, lower) ELSE Min(b, upper)
        start == IF sl.elems[1].kind = "none"
                 THEN (IF step < 0 THEN upper ELSE lower)
                 ELSE clip(sl.elems[1].elems[1])
        stop == IF sl.elems[2].kind = "none"
                THEN (IF step < 0 THEN lower ELSE upper)
                ELSE clip(sl.elems[2].elems[1])
    IN  [start |-> start, stop |-> stop, step |-> step]

zeroStep(sl) == sl.elems[3].kind = "int" /\ sl.elems[3].elems[1] = 0

\* seq[sl] for a list: a new list of the selected elements
listSlice(seq, sl) ==
    LET ix == indices(sl, Len(seq))
        sel == RangeElems(ix.start, ix.stop, ix.step)
    IN  PyList([k \in 1..Len(sel) |-> At(seq, sel[k])])

\* rg[sl] for a range: the range of the selected elements
rangeSlice(rg, sl) ==
    LET ix == indices(sl, Len(rg.elems))
    IN  range(rg.rng[1] + ix.start * rg.rng[3],
              rg.rng[1] + ix.stop * rg.rng[3],
              rg.rng[3] * ix.step)

\* self._time handed on whole, not sliced
timeSlice_whole(h, self, sl) == self._time

timeSlice(h, self, sl) ==
    IF self._time.kind = "range" THEN rangeSlice(self._time, sl)
    ELSE listSlice(Elems(h, self._time), sl)

inRange(i, n) == -n <= i /\ i < n
norm(i, n) == IF i < 0 THEN i + n ELSE i

\* self[index], a series built by a slice being bound to name dst
__getitem__(h, self, index, dst) ==
    IF index.kind = "slice"
    THEN IF zeroStep(index) THEN Raise(h, "ValueError")
         ELSE __init__(h, dst, listSlice(h[self._value], index),
                       timeSlice(h, self, index))
    ELSE IF index.kind # "int" THEN Raise(h, "TypeError")
    ELSE IF ~inRange(index.elems[1], Len(h[self._timeseries]))
    THEN Raise(h, "IndexError")
    ELSE [exc |-> "none", heap |-> h, obj |-> NoObj,
          ret |-> At(h[self._timeseries],
                     norm(index.elems[1], Len(h[self._timeseries])))]

\* the assignment to _timeseries left out
setitem_valueOnly(h, self, index, value) ==
    IF index.kind # "int" THEN Raise(h, "TypeError")
    ELSE IF ~inRange(index.elems[1], Len(h[self._value]))
    THEN Raise(h, "IndexError")
    ELSE [exc |-> "none", obj |-> NoObj, ret |-> <<>>,
          heap |-> [h EXCEPT ![self._value][norm(index.elems[1],
                                                 Len(h[self._value])) + 1] = value]]

\* self[index] = value: the two assignments in the order of the source, each
\* of which may raise IndexError
__setitem__(h, self, index, value) ==
    IF index.kind # "int" THEN Raise(h, "TypeError")
    ELSE
        LET i == index.elems[1]
            nv == Len(h[self._value])
            h1 == [h EXCEPT ![self._value][norm(i, nv) + 1] = value]
            nt == len(h1, self._time)
            np == Len(h1[self._timeseries])
        IN  IF ~inRange(i, nv) THEN Raise(h, "IndexError")
            ELSE IF ~inRange(i, nt) \/ ~inRange(i, np)
            THEN Raise(h1, "IndexError")
            ELSE [exc |-> "none", obj |-> NoObj, ret |-> <<>>,
                  heap |-> [h1 EXCEPT ![self._timeseries][norm(i, np) + 1] =
                                <<At(Elems(h1, self._time), norm(i, nt)), value>>]]

(* ----------------------------- arithmetic ----------------------------- *)

isTimeSeries(o) == o.class = "TimeSeries"

\* x != y for two time attributes: lists and ranges compare element-wise
\* with their own kind, and a list never equals a range
ne(h, x, y) == x.kind # y.kind \/ Elems(h, x) # Elems(h, y)

\* the comparison of the times left out of the check
precondition_lenOnly(h, self, otherTS) ==
    IF ~isTimeSeries(otherTS) THEN "TypeError"
    ELSE IF __len__(h, self) # __len__(h, otherTS) THEN "ValueError"
    ELSE "none"

\* the check every binary operation starts with
precondition(h, self, otherTS) ==
    IF ~isTimeSeries(otherTS) THEN "TypeError"
    ELSE IF __len__(h, self) # __len__(h, otherTS)
            \/ ne(h, self._time, otherTS._time)
    THEN "ValueError"
    ELSE "none"

\* list(map(lambda t: ..., zip(self._value, otherTS._value))) is written out
\* in each method, as in the source
__add__(h, self, otherTS, dst) ==
    IF precondition(h, self, otherTS) # "none"
    THEN Raise(h, precondition(h, self, otherTS))
    ELSE LET z == zip(h[self._value], h[otherTS._value])
         IN  __init__(h, dst,
                      PyList([k \in 1..Len(z) |-> NumAdd(z[k][1], z[k][2])]),
                      self._time)

__sub__(h, self, otherTS, dst) ==
    IF precondition(h, self, otherTS) # "none"
    THEN Raise(h, precondition(h, self, otherTS))
    ELSE LET z == zip(h[self._value], h[otherTS._value])
         IN  __init__(h, dst,
                      PyList([k \in 1..Len(z) |-> NumSub(z[k][1], z[k][2])]),
                      self._time)

__mul__(h, self, otherTS, dst) ==
    IF precondition(h, self, otherTS) # "none"
    THEN Raise(h, precondition(h, self, otherTS))
    ELSE LET z == zip(h[self._value], h[otherTS._value])
         IN  __init__(h, dst,
                      PyList([k \in 1..Len(z) |-> NumMul(z[k][1], z[k][2])]),
                      self._time)

__eq__(h, self, otherTS, dst) ==
    IF precondition(h, self, otherTS) # "none"
    THEN Raise(h, precondition(h, self, otherTS))
    ELSE [exc |-> "none", heap |-> h, obj |-> NoObj,
          ret |-> (h[self._timeseries] = h[otherTS._timeseries])]

__neg__(h, self, dst) ==
    __init__(h, dst,
             PyList([k \in 1..Len(h[self._value]) |-> NumNeg(h[self._value][k])]),
             self._time)

__pos__(h, self, dst) == __init__(h, dst, PyRef(self._value), self._time)

(* ---------------------------- interpolation --------------------------- *)

\* the loop with the textbook formula,
\* value[k-1] + (t - time[k-1]) * slope, in place of the source's
RECURSIVE while_linear(_, _, _, _)
while_linear(time, value, t, counter) ==
    LET n == Len(time)
    IN  IF ~(counter < n)
        THEN [counter |-> counter, out |-> <<>>, exc |-> "none"]
        ELSE IF t < At(time, 0)
        THEN [counter |-> counter, out |-> <<At(value, 0)>>, exc |-> "none"]
        ELSE IF t > At(time, n - 1)
        THEN [counter |-> counter, out |-> <<At(value, n - 1)>>, exc |-> "none"]
        ELSE IF At(time, counter - 1) <= t /\ t <= At(time, counter)
        THEN IF At(time, counter) - At(time, counter - 1) = 0
             THEN [counter |-> counter, out |-> <<>>,
                   exc |-> "ZeroDivisionError"]
             ELSE [counter |-> counter, exc |-> "none",
                   out |-> <<NumAdd(At(value, counter - 1),
                               NumMul(IntNum(t - At(time, counter - 1)),
                                 NumDiv(NumSub(At(value, counter),
                                               At(value, counter - 1)),
                                        IntNum(At(time, counter)
                                               - At(time, counter - 1)))))>>]
        ELSE while_linear(time, value, t, counter + 1)

\* the while loop for one query time t, entered with the cursor at counter:
\* the cursor it leaves, and the values it appended (one or none)
RECURSIVE while(_, _, _, _)
while(time, value, t, counter) ==
    LET n == Len(time)
    IN  IF ~(counter < n)
        THEN [counter |-> counter, out |-> <<>>, exc |-> "none"]
        ELSE IF t < At(time, 0)
        THEN [counter |-> counter, out |-> <<At(value, 0)>>, exc |-> "none"]
        ELSE IF t > At(time, n - 1)
        THEN [counter |-> counter, out |-> <<At(value, n - 1)>>, exc |-> "none"]
        ELSE IF At(time, counter - 1) <= t /\ t <= At(time, counter)
        THEN IF At(time, counter) - At(time, counter - 1) = 0
             THEN [counter |-> counter, out |-> <<>>,
                   exc |-> "ZeroDivisionError"]
             ELSE [counter |-> counter, exc |-> "none",
                   out |-> <<NumAdd(IntNum(t),
                               NumMul(IntNum(t),
                                 NumDiv(NumSub(At(value, counter),
                                               At(value, counter - 1)),
                                        IntNum(At(time, counter)
                                               - At(time, counter - 1)))))>>]
        ELSE while(time, value, t, counter + 1)

\* the for loop from query i on: the values appended, and the cursor after
\* each query
RECURSIVE for(_, _, _, _, _, _, _)
for(time, value, newTimes, i, counter, newValues, cursor) ==
    IF i > Len(newTimes)
    THEN [newValues |-> newValues, cursor |-> cursor, exc |-> "none"]
    ELSE LET w == while(time, value, newTimes[i], counter)
         IN  IF w.exc # "none"
             THEN [newValues |-> newValues, cursor |-> cursor, exc |-> w.exc]
             ELSE for(time, value, newTimes, i + 1, w.counter,
                      newValues \o w.out, Append(cursor, w.counter))

interpolate(h, self, newTimes, dst) ==
    LET loop == for(Elems(h, self._time), h[self._value], Elems(h, newTimes),
                    1, 1, <<>>, <<>>)
    IN  IF loop.exc # "none" THEN Raise(h, loop.exc)
        ELSE __init__(h, dst, PyList(loop.newValues), newTimes)

\* the cursor after each query of interpolate (its local variable counter)
cursorOf(h, self, newTimes) ==
    for(Elems(h, self._time), h[self._value], Elems(h, newTimes),
        1, 1, <<>>, <<>>).cursor

(* ------------------------------- inputs ------------------------------- *)

RECURSIVE SeqsUpTo(_, _)
SeqsUpTo(S, n) ==
    IF n = 0 THEN {<<>>}
    ELSE LET shorter == SeqsUpTo(S, n - 1)
         IN  shorter \cup {Append(q, x) : q \in shorter, x \in S}

\* value sequences of integers, and an int (no sequence)
ValueInputs(V, n) ==
    {PyList([i \in 1..Len(q) |-> IntNum(q[i])]) : q \in SeqsUpTo(V, n)}
    \cup {PyInt(1)}

\* time arguments: sequences (the empty one included), None, and the ints 0
\* (falsy) and 1 (truthy, no sequence)
TimeInputs(T, n) ==
    {PyList(q) : q \in SeqsUpTo(T, n)} \cup {PyNone, PyInt(0), PyInt(1)}

IntInputs(n) == {PyInt(i) : i \in -(n + 1)..(n + 1)}

\* slices with every kind of bound and step, and one with step 0
SliceInputs(n) ==
    {slice(b, e, st) : b \in IntInputs(n) \cup {PyNone},
                       e \in IntInputs(n) \cup {PyNone},
                       st \in {PyInt(k) : k \in {-2, -1, 1, 2}} \cup {PyNone}}
    \cup {slice(PyNone, PyNone, PyInt(0))}

\* the indices handed to set: ints, a slice and None
SetIndexInputs(n) == IntInputs(n) \cup {slice(PyNone, PyNone, PyNone), PyNone}

\* the whole series, a copy reversed, and its tail
AliasSlices ==
    {slice(PyNone, PyNone, PyNone), slice(PyNone, PyNone, PyInt(-1)),
     slice(PyInt(1), PyNone, PyNone)}

QueryInputs(n, m) == {PyList(q) : q \in SeqsUpTo(0..(n + 1), m)}

(* ------------------------------ actions ------------------------------- *)

Snapshot == [heap |-> heap, objs |-> objs]

\* what a name holds; a name not bound, and "None", hold None
Arg(y) == IF y \in Names THEN objs[y] ELSE NoObj

\* the call's effect: the heap it leaves, and dst bound to the series it
\* returned, if it returned one (the client binds each name once)
Returns(res, dst, op) ==
    /\ heap' = res.heap
    /\ objs' = IF res.obj # NoObj THEN [objs EXCEPT ![dst] = res.obj] ELSE objs
    /\ pre' = Snapshot
    /\ made' = IF res.obj # NoObj
               THEN [made EXCEPT ![dst] =
                        [by |-> op, n |-> __len__(res.heap, res.obj),
                         times |-> Times(res.heap, res.obj)]]
               ELSE made

Init ==
    /\ heap = [x \in Addrs |-> <<>>]
    /\ objs = [s \in Names |-> NoObj]
    /\ last = [op |-> "init", exc |-> "none"]
    /\ pre = [heap |-> [x \in Addrs |-> <<>>], objs |-> [s \in Names |-> NoObj]]
    /\ made = [s \in Names |-> [by |-> "none", n |-> 0, times |-> <<>>]]

\* No call has raised so far.  A constructor or an operation that raises ends
\* the client (the exception is not caught); the exceptions of set and of ==
\* are caught, and the client goes on.
Running == IF last.op \in {"set", "eq"} THEN TRUE ELSE last.exc = "none"

\* s = TimeSeries(input_value, input_time)
New(s, n, V, T) ==
    /\ Running
    /\ objs[s] = NoObj
    /\ \E iv \in ValueInputs(V, n), it \in TimeInputs(T, n) :
         LET res == __init__(heap, s, iv, it)
         IN  /\ Returns(res, s, "new")
             /\ last' = [op |-> "new", self |-> s, input_value |-> iv,
                         input_time |-> it, exc |-> res.exc]

\* r = x[index]
GetItem(X, I) ==
    \E x \in X, index \in I :
        /\ Running
        /\ objs[x] # NoObj
        /\ objs["r"] = NoObj
        /\ LET res == __getitem__(heap, objs[x], index, "r")
           IN  /\ Returns(res, "r", "getitem")
               /\ last' = [op |-> "getitem", self |-> x, index |-> index,
                           exc |-> res.exc, ret |-> res.ret]

\* x[index] = value
SetItem(X, I, V) ==
    \E x \in X, index \in I, value \in V :
        /\ objs[x] # NoObj
        /\ LET res == __setitem__(heap, objs[x], index, value)
           IN  /\ Returns(res, "r", "set")
               /\ last' = [op |-> "set", self |-> x, index |-> index,
                           value |-> value, exc |-> res.exc]

\* r = x + y
Add(X, Y) ==
    \E x \in X, y \in Y :
        /\ Running
        /\ objs[x] # NoObj
        /\ objs["r"] = NoObj
        /\ LET res == __add__(heap, objs[x], Arg(y), "r")
           IN  /\ Returns(res, "r", "add")
               /\ last' = [op |-> "add", self |-> x, other |-> y,
                           exc |-> res.exc]

\* r = x - y
Sub(X, Y) ==
    \E x \in X, y \in Y :
        /\ Running
        /\ objs[x] # NoObj
        /\ objs["r"] = NoObj
        /\ LET res == __sub__(heap, objs[x], Arg(y), "r")
           IN  /\ Returns(res, "r", "sub")
               /\ last' = [op |-> "sub", self |-> x, other |-> y,
                           exc |-> res.exc]

\* r = x * y
Mul(X, Y) ==
    \E x \in X, y \in Y :
        /\ Running
        /\ objs[x] # NoObj
        /\ objs["r"] = NoObj
        /\ LET res == __mul__(heap, objs[x], Arg(y), "r")
           IN  /\ Returns(res, "r", "mul")
               /\ last' = [op |-> "mul", self |-> x, other |-> y,
                           exc |-> res.exc]

\* x == y
Eq(X, Y) ==
    \E x \in X, y \in Y :
        /\ objs[x] # NoObj
        /\ LET res == __eq__(heap, objs[x], Arg(y), "r")
           IN  /\ Returns(res, "r", "eq")
               /\ last' = [op |-> "eq", self |-> x, other |-> y,
                           exc |-> res.exc, ret |-> res.ret]

\* r = -x
Neg(X) ==
    \E x \in X :
        /\ Running
        /\ objs[x] # NoObj
        /\ objs["r"] = NoObj
        /\ LET res == __neg__(heap, objs[x], "r")
           IN  /\ Returns(res, "r", "neg")
               /\ last' = [op |-> "neg", self |-> x, exc |-> res.exc]

\* r = +x
Pos(X) ==
    \E x \in X :
        /\ Running
        /\ objs[x] # NoObj
        /\ objs["r"] = NoObj
        /\ LET res == __pos__(heap, objs[x], "r")
           IN  /\ Returns(res, "r", "pos")
               /\ last' = [op |-> "pos", self |-> x, exc |-> res.exc]

\* r = x.interpolate(newTimes)
Interpolate(X, Q) ==
    \E x \in X, newTimes \in Q :
        /\ Running
        /\ objs[x] # NoObj
        /\ objs["r"] = NoObj
        /\ LET res == interpolate(heap, objs[x], newTimes, "r")
           IN  /\ Returns(res, "r", "interpolate")
               /\ last' = [op |-> "interpolate", self |-> x,
                           newTimes |-> newTimes, exc |-> res.exc,
                           cursor |-> cursorOf(heap, objs[x], newTimes)]

(* --------------------------- specifications --------------------------- *)

\* construction
NextNew == New("a", MaxLen, Vals, TimeVals) \/ New("b", MaxLen, Vals, TimeVals)

SpecNew == Init /\ [][NextNew]_vars

\* two operands and r = a + y, r = a - y, r = a * y, with y one of a, b and
\* None (b + a is a + b with the two constructions exchanged)
NextArith ==
    \/ New("a", MaxLen, Vals, TimeVals)
    \/ New("b", MaxLen, Vals, TimeVals)
    \/ Add({"a"}, {"a", "b", "None"})
    \/ Sub({"a"}, {"a", "b", "None"})
    \/ Mul({"a"}, {"a", "b", "None"})

SpecArith == Init /\ [][NextArith]_vars

\* two operands and a == y
NextEq ==
    \/ New("a", MaxLen, Vals, TimeVals)
    \/ New("b", MaxLen, Vals, TimeVals)
    \/ Eq({"a"}, {"a", "b", "None"})

SpecEq == Init /\ [][NextEq]_vars

\* one operand, the unary operations and equality with their result
NextUnary ==
    \/ New("a", MaxLen, Vals, TimeVals)
    \/ Neg({"a"})
    \/ Pos({"a"})
    \/ Eq(Names, Names)

SpecUnary == Init /\ [][NextUnary]_vars

\* one series and any sequence of set calls on it
NextSet ==
    \/ New("a", MaxLen, Vals, TimeVals)
    \/ SetItem({"a"}, SetIndexInputs(MaxLen), SetVals)

SpecSet == Init /\ [][NextSet]_vars

\* one series and its items and slices
NextSlice ==
    \/ New("a", MaxLen, Vals, TimeVals)
    \/ GetItem({"a"}, IntInputs(MaxLen) \cup SliceInputs(MaxLen) \cup {PyNone})

SpecSlice == Init /\ [][NextSlice]_vars

\* one series and its interpolations
NextInterp ==
    \/ New("a", MaxInterpLen, Vals, InterpTimeVals)
    \/ Interpolate({"a"}, QueryInputs(MaxInterpLen, MaxQueries))

SpecInterp == Init /\ [][NextInterp]_vars

\* two operands, every operation that returns a series, and set calls on the
\* operands and on the result
NextAlias ==
    \/ New("a", MaxAliasLen, AliasVals, TimeVals)
    \/ New("b", MaxAliasLen, AliasVals, TimeVals)
    \/ Add({"a"}, {"a", "b"})
    \/ Sub({"a"}, {"a", "b"})
    \/ Mul({"a"}, {"a", "b"})
    \/ Neg({"a"})
    \/ Pos({"a"})
    \/ GetItem({"a"}, AliasSlices)
    \/ Interpolate({"a"}, QueryInputs(MaxAliasLen, 1))
    \/ SetItem(Names, {PyInt(0)}, {IntNum(0)})

SpecAlias == Init /\ [][NextAlias]_vars

(* ------------------------------- claims ------------------------------- *)

View(h, o) == [times |-> Times(h, o), values |-> Values(h, o), pairs |-> Pairs(h, o)]

\* the addresses of the lists an instance holds
Storage(o) ==
    {o._value, o._timeseries}
    \cup (IF o._time.addr # NullAddr THEN {o._time.addr} ELSE {})

NonDecreasing(q) == \A i \in 1..(Len(q) - 1) : q[i] <= q[i + 1]
StrictlyIncreasing(q) == \A i \in 1..(Len(q) - 1) : q[i] < q[i + 1]

ArithOps == {"add", "sub", "mul"}
Apply(op, x, y) ==
    CASE op = "add" -> NumAdd(x, y)
      [] op = "sub" -> NumSub(x, y)
      [] op = "mul" -> NumMul(x, y)

\* the operand the last binary call was given
Other == IF last.other \in Names THEN pre.objs[last.other] ELSE NoObj

\* C1: for a and b with equal time sequences (explicit or default), a + b,
\* a - b and a * b return a series with the operands' times and, at every
\* index, the sum, difference or product of the operands' values.
C1_ArithOnEqualTimes ==
    (/\ last.op \in ArithOps
     /\ Other # NoObj
     /\ Times(pre.heap, pre.objs["a"]) = Times(pre.heap, Other))
    => /\ last.exc = "none"
       /\ objs["r"] # NoObj
       /\ Times(heap, objs["r"]) = Times(pre.heap, pre.objs["a"])
       /\ Values(heap, objs["r"]) =
            [i \in 1..Len(Values(pre.heap, pre.objs["a"])) |->
                Apply(last.op, Values(pre.heap, pre.objs["a"])[i],
                      Values(pre.heap, Other)[i])]

\* C2: add, subtract and multiply fail with TypeError when the other operand
\* is no TimeSeries, and otherwise with ValueError when the two series differ
\* in length or in a time element; a failed call returns no series and leaves
\* every list and every name as it was.
C2_ArithFailures ==
    last.op \in ArithOps
    => /\ Other = NoObj => last.exc = "TypeError"
       /\ (/\ Other # NoObj
           /\ Times(pre.heap, pre.objs["a"]) # Times(pre.heap, Other))
          => last.exc = "ValueError"
       /\ last.exc # "none"
          => /\ heap = pre.heap
             /\ objs = pre.objs
             /\ objs["r"] = NoObj

C2_Witness ==
    /\ last.op = "add"
    /\ last.other = "b"
    /\ last.exc = "ValueError"
    /\ Len(Times(heap, objs["a"])) = 2
    /\ Len(Times(heap, objs["b"])) = 2
    /\ objs["a"]._time.kind = "list"
    /\ objs["b"]._time.kind = "list"

\* C3: a == b fails with TypeError when b is no TimeSeries, fails with
\* ValueError when the lengths or a time element differ, and for time-aligned
\* series returns True exactly when the values are equal at every index.
C3_EqOnAlignedSeries ==
    last.op = "eq"
    => IF Other = NoObj THEN last.exc = "TypeError"
       ELSE IF Times(pre.heap, pre.objs["a"]) # Times(pre.heap, Other)
       THEN last.exc = "ValueError"
       ELSE /\ last.exc = "none"
            /\ last.ret = (Values(pre.heap, pre.objs["a"]) = Values(pre.heap, Other))

\* C4: after any sequence of set calls the length and the times are those of
\* the construction and get(i) is (times[i], values[i]) at every valid index;
\* set succeeds exactly for an integer index in range (negative ones
\* included), then changes position k only, and a failed set changes nothing.
C4_SetKeepsShape ==
    /\ \A s \in Names :
         objs[s] # NoObj
         => LET n == made[s].n
            IN  /\ __len__(heap, objs[s]) = n
                /\ Times(heap, objs[s]) = made[s].times
                /\ \A i \in (-n)..(n - 1) :
                     LET k == IF i < 0 THEN i + n ELSE i
                         got == __getitem__(heap, objs[s], PyInt(i), "r")
                     IN  /\ got.exc = "none"
                         /\ got.ret = <<Times(heap, objs[s])[k + 1],
                                        Values(heap, objs[s])[k + 1]>>
    /\ last.op = "set"
       => LET self == pre.objs[last.self]
              n == Len(Values(pre.heap, self))
              i == last.index.elems[1]
              ok == last.index.kind = "int" /\ -n <= i /\ i <= n - 1
              k == IF i < 0 THEN i + n ELSE i
          IN  /\ (last.exc = "none") <=> ok
              /\ objs = pre.objs
              /\ ok => /\ Values(heap, self) =
                            [Values(pre.heap, self) EXCEPT ![k + 1] = last.value]
                       /\ Pairs(heap, self) =
                            [Pairs(pre.heap, self) EXCEPT ![k + 1] =
                                <<Times(pre.heap, self)[k + 1], last.value>>]
              /\ ~ok => heap = pre.heap

C4_Witness ==
    /\ last.op = "set"
    /\ last.exc = "none"
    /\ last.index = PyInt(-1)
    /\ made["a"].n = 2
    /\ Values(pre.heap, pre.objs["a"])[2] # last.value
    /\ Values(pre.heap, pre.objs["a"])[1] = IntNum(0)

\* C5: for a series with at least one element and non-decreasing newTimes,
\* interpolate returns a series whose times are newTimes, with one value per
\* query time.
C5_InterpolateTotal ==
    (/\ last.op = "interpolate"
     /\ made["a"].n >= 1
     /\ NonDecreasing(last.newTimes.elems))
    => /\ last.exc = "none"
       /\ objs["r"] # NoObj
       /\ Times(heap, objs["r"]) = last.newTimes.elems
       /\ Len(Values(heap, objs["r"])) = Len(last.newTimes.elems)

\* C6: +a is another instance with a's times and values, and (+a) == a
\* returns True, for a built with explicit or with default times.
C6_PosEqualsOperand ==
    /\ last.op = "pos"
       => /\ last.exc = "none"
          /\ Storage(objs["r"]) \cap Storage(objs["a"]) = {}
          /\ Times(heap, objs["r"]) = Times(heap, objs["a"])
          /\ Values(heap, objs["r"]) = Values(heap, objs["a"])
    /\ (/\ last.op = "eq"
        /\ made["r"].by = "pos"
        /\ last.self = "r"
        /\ last.other = "a")
       => /\ last.exc = "none"
          /\ last.ret = TRUE

\* C7: with a time argument that is None, empty or otherwise falsy the
\* construction from a value sequence of length n succeeds and get(i).time is
\* i + 1; a non-empty time sequence of another length is rejected with
\* ValueError.
C7_DefaultTimes ==
    (last.op = "new" /\ last.input_value.kind = "list")
    => LET n == Len(last.input_value.elems)
           it == last.input_time
           falsy == \/ it.kind = "none"
                    \/ it.kind = "list" /\ it.elems = <<>>
                    \/ it.kind = "int" /\ it.elems = <<0>>
       IN  /\ falsy
              => /\ last.exc = "none"
                 /\ objs[last.self] # NoObj
                 /\ __len__(heap, objs[last.self]) = n
                 /\ \A i \in 0..(n - 1) :
                      __getitem__(heap, objs[last.self], PyInt(i), "r").ret[1]
                        = i + 1
           /\ (it.kind = "list" /\ Len(it.elems) > 0 /\ Len(it.elems) # n)
              => last.exc = "ValueError"

C7_Witness ==
    /\ last.op = "new"
    /\ last.input_time = PyList(<<>>)
    /\ Len(last.input_value.elems) = 2
    /\ last.exc = "none"
    /\ Pairs(heap, objs[last.self])[2][1] = 2

\* C8: for every slice (step not 0) s[slice] is a new series whose values are
\* s.values[slice] and whose times are s.times[slice], element by element, so
\* that each of its pairs is a pair of s.
C8_SliceOfSeries ==
    (last.op = "getitem" /\ last.index.kind = "slice" /\ ~zeroStep(last.index))
    => LET self == pre.objs["a"]
       IN  /\ last.exc = "none"
           /\ objs["r"] # NoObj
           /\ Storage(objs["r"]) \cap Storage(objs["a"]) = {}
           /\ Values(heap, objs["r"])
                = listSlice(Values(pre.heap, self), last.index).elems
           /\ Times(heap, objs["r"])
                = listSlice(Times(pre.heap, self), last.index).elems
           /\ \A j \in 1..Len(Pairs(heap, objs["r"])) :
                \E i \in 1..Len(Pairs(pre.heap, self)) :
                    Pairs(heap, objs["r"])[j] = Pairs(pre.heap, self)[i]

C8_Witness ==
    /\ last.op = "getitem"
    /\ last.index = slice(PyNone, PyInt(-3), PyInt(-1))
    /\ objs["a"]._time.kind = "range"
    /\ Times(heap, objs["r"]) = <<2, 1>>
    /\ Values(heap, objs["r"]) = <<IntNum(2), IntNum(1)>>

\* C9: no two instances share a list: an operation that returns a series
\* leaves its operands' times, values and pairs as they were, and a set call
\* on one instance leaves every other instance as it was.
C9_NoSharedStorage ==
    /\ \A s \in Names, t \in Names :
         (s # t /\ objs[s] # NoObj /\ objs[t] # NoObj)
         => Storage(objs[s]) \cap Storage(objs[t]) = {}
    /\ last.op \in ArithOps \cup {"neg", "pos", "getitem", "interpolate"}
       => \A s \in Operands :
            /\ objs[s] = pre.objs[s]
            /\ objs[s] # NoObj
               => View(heap, objs[s]) = View(pre.heap, pre.objs[s])
    /\ last.op = "set"
       => \A s \in Names \ {last.self} :
            /\ objs[s] = pre.objs[s]
            /\ objs[s] # NoObj
               => View(heap, objs[s]) = View(pre.heap, pre.objs[s])

C9_Witness ==
    /\ last.op = "set"
    /\ last.self = "r"
    /\ last.exc = "none"
    /\ made["r"].by = "pos"
    /\ Values(heap, objs["r"])[1] = IntNum(0)
    /\ Values(heap, objs["a"])[1] = IntNum(1)

\* the smallest k >= 1 with time[k-1] <= t <= time[k] (0-based)
Bracket(time, t) ==
    CHOOSE k \in 1..(Len(time) - 1) :
        /\ At(time, k - 1) <= t /\ t <= At(time, k)
        /\ \A j \in 1..(k - 1) : ~(At(time, j - 1) <= t /\ t <= At(time, j))

InRange(time, t) == At(time, 0) <= t /\ t <= At(time, Len(time) - 1)

Expected(time, value, t) ==
    IF t < At(time, 0) THEN At(value, 0)
    ELSE IF t > At(time, Len(time) - 1) THEN At(value, Len(time) - 1)
    ELSE LET k == Bracket(time, t)
         IN  NumAdd(IntNum(t),
                    NumMul(IntNum(t),
                           NumDiv(NumSub(At(value, k), At(value, k - 1)),
                                  IntNum(At(time, k) - At(time, k - 1)))))

====
